---- MODULE Spec2Model ----
(***************************************************************************)
(* FastSLAM particle filter: FastSLAMPF (particle-filter.cpp) and          *)
(* FastSLAMParticles (particles.cpp).                                       *)
(*                                                                         *)
(* Floats are modelled as integers counted in units of 1/One, where One    *)
(* is a multiple of every particle count, so that 1.0f/N is exact.         *)
(* The external collaborators (LMEKF2D, RobotManager2D, MathUtil) are      *)
(* modelled by the values they return, drawn from small sets.              *)
(***************************************************************************)
EXTENDS Integers, Sequences, FiniteSets, TLC

\* ---------------------------------------------------------------- bounds
MaxN == 2            \* largest particle count
MaxQueue == 2        \* longest observation queue of one updateFilter call
MaxCalls == 2        \* updateFilter calls in one run
MaxSteps == 3        \* operations applied to the single particle
MaxLen == 3          \* longest cdf vector handed to drawWithReplacement

VARIABLES
    \* configuration, fixed at construction / compile time
    m_num_particles,      \* FastSLAMPF::m_num_particles
    m_robot,              \* TRUE iff the robot manager handle is non-null
    m_importance_factor,  \* FastSLAMParticles::m_importance_factor (w_0)
    UPDATE_ERROR,         \* numeric value of PF_RET::UPDATE_ERROR
    LM_CLEANUP,           \* TRUE iff compiled with -DLM_CLEANUP
    \* FastSLAMPF
    m_particle_set,       \* key -> particle (or NULL)
    m_particle_weights,   \* sequence of weights, slot idx is element idx+1
    a_sighting_queue,     \* the caller's observation queue
    pc,                   \* position inside updateFilter / reSampleParticles
    iterOrder,            \* iteration order of the unordered_map
    pos,                  \* position of the running range-for in iterOrder
    idx,                  \* local idx of updateFilter
    aux_set,              \* local aux_set of reSampleParticles
    calls,                \* updateFilter calls made so far
    preSet,               \* particle set when the last resampling began
    expected,             \* key -> entry weight + sum of that particle's returns
    \* a single FastSLAMParticles object driven directly
    part,                 \* the particle
    op,                   \* last operation applied to it
    ret,                  \* value returned by the last updateParticle
    rc,                   \* PF_RET of the last updateLMBelief
    cpdArg,               \* calcCPD values seen by the last matchLandmark
    inRangeArg,           \* per-EKF "within perceptual range" of the last cleanup
    nSucc,                \* updateLMBelief calls that returned SUCCESS
    steps,                \* operations applied so far
    onlyUP,               \* TRUE while only updateParticle has been applied
    \* drawWithReplacement driven directly
    cdf_vec, sample, drawn, called

cfgVars == <<m_num_particles, m_robot, m_importance_factor, UPDATE_ERROR, LM_CLEANUP>>
pfVars == <<m_particle_set, m_particle_weights, a_sighting_queue, pc, iterOrder,
            pos, idx, aux_set, calls, preSet, expected>>
partVars == <<part, op, ret, rc, cpdArg, inRangeArg, nSucc, steps, onlyUP>>
drawVars == <<cdf_vec, sample, drawn, called>>
vars == <<cfgVars, pfVars, partVars, drawVars>>

\* ------------------------------------------------------------ value sets
RECURSIVE Product(_)
Product(n) == IF n <= 1 THEN 1 ELSE n * Product(n - 1)

\* 1.0f in model units
One == Product(MaxN)

\* a whole-numbered float in model units
Float(x) == x * One

\* the observations a sighting is drawn from
Obs == {1, 2}

\* values calcCPD returns, in model units
W == {0, 1, 2, 3}

\* values of the importance factor w_0, in model units
ImportanceFactors == {1, 2}

\* weights a cdf is built from when drawWithReplacement is driven directly
WeightValues == {0, 1, 2}
KF_RET == {"SUCCESS", "EMPTY_ROBOT_MANAGER", "MATRIX_INVERSION_ERROR"}

\* PF_RET::UPDATE_ERROR is declared in particle-filter.h: either the value the
\* literal at particles.cpp:121 suggests, or the default value of the fourth
\* enumerator after SUCCESS, EMPTY_ROBOT_MANAGER, MATRIX_INVERSION_ERROR.
SentinelValues == {-1, 3}

\* the literal returned when the particle has no robot manager
NO_ROBOT_WEIGHT == -1

\* a map entry whose unique_ptr is empty
NULL == [null |-> TRUE]

\* values an uninitialised int may hold
Garbage == -1..(MaxN + 1)

RECURSIVE SumSeq(_)
SumSeq(s) == IF s = <<>> THEN 0 ELSE Head(s) + SumSeq(Tail(s))

Cnts(bank) == [k \in 1..Len(bank) |-> bank[k].cnt]

\* ------------------------------------------------- MathUtil (external)
\* cdf[i] = weights[1] + ... + weights[i]
genCDF(weights) == [i \in 1..Len(weights) |-> SumSeq(SubSeq(weights, 1, i))]

\* the values sampleUniform(0, total) can return: a + (b - a) * r, 0 <= r < 1
sampleUniform(total) ==
    IF total > 0 THEN 0..(total - 1)
    ELSE IF total < 0 THEN (total + 1)..0
    ELSE {0}

\* ----------------------------------------------- FastSLAMPF, pure parts
\* the while loop of drawWithReplacement; cdf_vec[k] of the code is cdf[k+1]
RECURSIVE DrawLoop(_, _, _, _, _)
DrawLoop(cdf, s, start, end, middle) ==
    IF start # end
    THEN LET mid == (start + end) \div 2
         IN  IF s >= cdf[mid + 1]
             THEN DrawLoop(cdf, s, mid + 1, end, mid)
             ELSE DrawLoop(cdf, s, start, mid, mid)
    ELSE middle

\* `middle` is read before its first assignment only when the loop body never runs
UninitFor(cdf) == IF Len(cdf) = 1 THEN Garbage ELSE {0}

\* uninit is the value the local `middle` holds before its first assignment
drawWithReplacement(cdf, s, uninit) ==
    LET end == Len(cdf) - 1
    IN  IF s < 0 \/ s > cdf[end + 1] THEN -1
        ELSE DrawLoop(cdf, s, 0, end, uninit)

\* --------------------------------------------------- LMEKF2D (external)
\* a fresh EKF: mean from inverseMeas of the observation, covariance the
\* identity when the measurement Jacobian is singular
NewEKF(z, singular) == [mean |-> z, idCov |-> singular, obs |-> z, upd |-> 0]

updateObservation(ekf, z) == [ekf EXCEPT !.obs = z]

KalmanUpdate(ekf) == [ekf EXCEPT !.upd = @ + 1]

\* --------------------------------------------------- FastSLAMParticles
\* the particle the header's constructor builds: empty bank
NewParticle(w_0) == [bank |-> <<>>, m_data_label |-> 0, m_curr_max_wn |-> w_0]

\* the copy constructor: it iterates its own, still empty, bank
CopyParticle(p) == [p EXCEPT !.bank = <<>>]

ExceedsOrEquals(w_n, max_wn) == w_n >= max_wn

\* the comparison of matchLandmark
Exceeds(w_n, max_wn) == w_n > max_wn

RECURSIVE MatchScan(_, _, _, _)
MatchScan(cpd, i, landmark_id, max_wn) ==
    IF i >= Len(cpd) THEN <<landmark_id, max_wn>>
    ELSE IF Exceeds(cpd[i + 1], max_wn)
         THEN MatchScan(cpd, i + 1, i, cpd[i + 1])
         ELSE MatchScan(cpd, i + 1, landmark_id, max_wn)

\* cpd[k] is what calcCPD of EKF k-1 returns for curr_obs
matchLandmark(p, curr_obs, cpd) ==
    LET r == MatchScan(cpd, 0, Len(p.bank), m_importance_factor)
    IN  [p EXCEPT !.bank = [k \in 1..Len(p.bank) |->
                               [p.bank[k] EXCEPT !.ekf = updateObservation(@, curr_obs)]],
                  !.m_data_label = r[1],
                  !.m_curr_max_wn = r[2]]

updateLMBeliefKeepCount(p, curr_obs, singular, status) ==
    IF ~m_robot THEN [p |-> p, rc |-> "EMPTY_ROBOT_MANAGER"]
    ELSE IF p.m_data_label = Len(p.bank)
    THEN [p |-> [p EXCEPT !.bank = Append(@, [ekf |-> NewEKF(curr_obs, singular), cnt |-> 1])],
          rc |-> "SUCCESS"]
    ELSE LET l == p.m_data_label + 1
             fed == [p EXCEPT !.bank[l].ekf = updateObservation(@, curr_obs)]
         IN  IF status = "SUCCESS"
             THEN [p |-> [fed EXCEPT !.bank[l].ekf = KalmanUpdate(@)], rc |-> "SUCCESS"]
             ELSE [p |-> fed, rc |-> status]

\* singular: measJacobian(...).determinant() == 0; status: what update() returns
updateLMBelief(p, curr_obs, singular, status) ==
    IF ~m_robot THEN [p |-> p, rc |-> "EMPTY_ROBOT_MANAGER"]
    ELSE IF p.m_data_label = Len(p.bank)
    THEN [p |-> [p EXCEPT !.bank = Append(@, [ekf |-> NewEKF(curr_obs, singular), cnt |-> 1])],
          rc |-> "SUCCESS"]
    ELSE LET l == p.m_data_label + 1
             fed == [p EXCEPT !.bank[l].ekf = updateObservation(@, curr_obs)]
         IN  IF status = "SUCCESS"
             THEN [p |-> [fed EXCEPT !.bank[l].ekf = KalmanUpdate(@), !.bank[l].cnt = @ + 1],
                   rc |-> "SUCCESS"]
             ELSE [p |-> fed, rc |-> status]

\* the range-for of cleanUpSightings: k is the element visited (1-based), i the
\* local counter, which the code advances only when it skips an element
RECURSIVE CleanLoop(_, _, _, _, _)
CleanLoop(bank, k, i, label, inRange) ==
    IF k > Len(bank) THEN bank
    ELSE IF i = label THEN CleanLoop(bank, k + 1, i + 1, label, inRange)
    ELSE IF inRange[k]
         THEN CleanLoop([bank EXCEPT ![k].cnt = @ - 1], k + 1, i, label, inRange)
         ELSE CleanLoop(bank, k + 1, i, label, inRange)

\* inRange[k]: findDist(mean of EKF k-1, pose) <= getPerceptualRange()
cleanUpSightings(p, inRange) ==
    [p EXCEPT !.bank = CleanLoop(p.bank, 1, 0, p.m_data_label, inRange)]

\* declared in particle-filter.h: the correspondence of the last association
getParticleWeight(p) == p.m_curr_max_wn

updateParticle(p, new_obs, cpd, singular, status, inRange) ==
    IF ~m_robot THEN [p |-> p, ret |-> Float(NO_ROBOT_WEIGHT), rc |-> "NOT_CALLED"]
    ELSE LET u == updateLMBelief(matchLandmark(p, new_obs, cpd), new_obs, singular, status)
         IN  IF u.rc # "SUCCESS"
             THEN [p |-> u.p, ret |-> Float(UPDATE_ERROR), rc |-> u.rc]
             ELSE LET c == IF LM_CLEANUP THEN cleanUpSightings(u.p, inRange) ELSE u.p
                  IN  [p |-> c, ret |-> getParticleWeight(c), rc |-> "SUCCESS"]


\* ------------------------------------------------------------------
\* One particle, driven through its member functions
\* ------------------------------------------------------------------
NoInRange == <<>>

InitConfig ==
    /\ m_robot \in BOOLEAN
    /\ m_importance_factor \in ImportanceFactors
    /\ UPDATE_ERROR \in SentinelValues
    /\ LM_CLEANUP \in BOOLEAN

IdlePF ==
    /\ m_num_particles = 0
    /\ m_particle_set = <<>>
    /\ m_particle_weights = <<>>
    /\ a_sighting_queue = <<>>
    /\ pc = "unused"
    /\ iterOrder = <<>>
    /\ pos = 0
    /\ idx = 0
    /\ aux_set = <<>>
    /\ calls = 0
    /\ preSet = <<>>
    /\ expected = <<>>

IdlePart ==
    /\ part = NewParticle(0)
    /\ op = "unused"
    /\ ret = 0
    /\ rc = "NOT_CALLED"
    /\ cpdArg = <<>>
    /\ inRangeArg = NoInRange
    /\ nSucc = 0
    /\ steps = 0
    /\ onlyUP = TRUE

IdleDraw ==
    /\ cdf_vec = <<>>
    /\ sample = 0
    /\ drawn = 0
    /\ called = FALSE

InitParticle ==
    /\ InitConfig
    /\ ~LM_CLEANUP
    /\ IdlePF
    /\ IdleDraw
    /\ part = NewParticle(m_importance_factor)
    /\ op = "constructed"
    /\ ret = 0
    /\ rc = "NOT_CALLED"
    /\ cpdArg = <<>>
    /\ inRangeArg = NoInRange
    /\ nSucc = 0
    /\ steps = 0
    /\ onlyUP = TRUE

\* the EKF update can be reached only when an existing landmark is matched,
\* the Jacobian only on the new-landmark path
StatusFor(p) == IF m_robot /\ p.m_data_label < Len(p.bank) THEN KF_RET ELSE {"SUCCESS"}
SingularFor(p) == IF m_robot /\ p.m_data_label = Len(p.bank) THEN BOOLEAN ELSE {FALSE}

MatchLandmark ==
    /\ steps < MaxSteps
    /\ \E z \in Obs, cpd \in [1..Len(part.bank) -> W] :
          /\ part' = matchLandmark(part, z, cpd)
          /\ cpdArg' = cpd
    /\ op' = "matchLandmark"
    /\ onlyUP' = FALSE
    /\ steps' = steps + 1
    /\ UNCHANGED <<ret, rc, inRangeArg, nSucc>>
    /\ UNCHANGED <<cfgVars, pfVars, drawVars>>

UpdateLMBelief ==
    /\ steps < MaxSteps
    /\ part.m_data_label <= Len(part.bank)
    /\ \E z \in Obs, singular \in SingularFor(part), status \in StatusFor(part) :
          LET u == updateLMBelief(part, z, singular, status)
          IN  /\ part' = u.p
              /\ rc' = u.rc
              /\ nSucc' = IF u.rc = "SUCCESS" THEN nSucc + 1 ELSE nSucc
    /\ op' = "updateLMBelief"
    /\ onlyUP' = FALSE
    /\ steps' = steps + 1
    /\ UNCHANGED <<ret, cpdArg, inRangeArg>>
    /\ UNCHANGED <<cfgVars, pfVars, drawVars>>

CleanUpSightings ==
    /\ steps < MaxSteps
    /\ LM_CLEANUP
    /\ m_robot
    /\ \E inRange \in [1..Len(part.bank) -> BOOLEAN] :
          /\ part' = cleanUpSightings(part, inRange)
          /\ inRangeArg' = inRange
    /\ op' = "cleanUpSightings"
    /\ onlyUP' = FALSE
    /\ steps' = steps + 1
    /\ UNCHANGED <<ret, rc, cpdArg, nSucc>>
    /\ UNCHANGED <<cfgVars, pfVars, drawVars>>

UpdateParticle ==
    /\ steps < MaxSteps
    /\ \E z \in Obs, cpd \in [1..Len(part.bank) -> W] :
          LET m == matchLandmark(part, z, cpd)
          IN  \E singular \in SingularFor(m), status \in StatusFor(m),
                 inRange \in IF LM_CLEANUP /\ m_robot
                             THEN [1..(Len(part.bank) + 1) -> BOOLEAN]
                             ELSE {NoInRange} :
                 LET r == updateParticle(part, z, cpd, singular, status, inRange)
                 IN  /\ part' = r.p
                     /\ ret' = r.ret
                     /\ rc' = r.rc
                     /\ nSucc' = IF r.rc = "SUCCESS" THEN nSucc + 1 ELSE nSucc
    /\ op' = "updateParticle"
    /\ steps' = steps + 1
    /\ cpdArg' = <<>>
    /\ inRangeArg' = NoInRange
    /\ UNCHANGED onlyUP
    /\ UNCHANGED <<cfgVars, pfVars, drawVars>>

NextParticle ==
    \/ MatchLandmark
    \/ UpdateLMBelief
    \/ UpdateParticle

\* the default build: cleanUpSightings is compiled out
SpecParticle == InitParticle /\ [][NextParticle]_vars

InitCleanup ==
    /\ InitConfig
    /\ LM_CLEANUP
    /\ IdlePF
    /\ IdleDraw
    /\ part = NewParticle(m_importance_factor)
    /\ op = "constructed"
    /\ ret = 0
    /\ rc = "NOT_CALLED"
    /\ cpdArg = <<>>
    /\ inRangeArg = NoInRange
    /\ nSucc = 0
    /\ steps = 0
    /\ onlyUP = TRUE

NextCleanup ==
    \/ MatchLandmark
    \/ UpdateLMBelief
    \/ CleanUpSightings
    \/ UpdateParticle

\* the build with -DLM_CLEANUP
SpecCleanup == InitCleanup /\ [][NextCleanup]_vars


\* ------------------------------------------------------------------
\* drawWithReplacement, driven directly
\* ------------------------------------------------------------------
IdleConfig ==
    /\ m_robot = TRUE
    /\ m_importance_factor = 1
    /\ UPDATE_ERROR = -1
    /\ LM_CLEANUP = FALSE

SeqsUpTo(S, n) == UNION {[1..k -> S] : k \in 0..n}

InitDraw ==
    /\ IdleConfig
    /\ IdlePF
    /\ IdlePart
    /\ cdf_vec \in {genCDF(w) : w \in SeqsUpTo(WeightValues, MaxLen) \ {<<>>}}
    /\ sample = 0
    /\ drawn = 0
    /\ called = FALSE

Draw ==
    /\ \E u \in -1..(cdf_vec[Len(cdf_vec)] + 1), uninit \in UninitFor(cdf_vec) :
          /\ sample' = u
          /\ drawn' = drawWithReplacement(cdf_vec, u, uninit)
    /\ called' = TRUE
    /\ UNCHANGED cdf_vec
    /\ UNCHANGED <<cfgVars, pfVars, partVars>>

NextDraw == Draw

SpecDraw == InitDraw /\ [][NextDraw]_vars


\* ------------------------------------------------------------------
\* FastSLAMPF: construction, updateFilter, reSampleParticles
\* ------------------------------------------------------------------
Keys == 0..(m_num_particles - 1)

\* the orders in which a range-for may visit the keys of the unordered_map
Orders(S) == {o \in [1..Cardinality(S) -> S] : \A a, b \in DOMAIN o : a # b => o[a] # o[b]}

EmptyMap == <<>>

Init ==
    /\ InitConfig
    /\ ~LM_CLEANUP
    /\ IdlePart
    /\ IdleDraw
    /\ m_num_particles \in 1..MaxN
    /\ m_particle_set = [k \in Keys |-> NewParticle(m_importance_factor)]
    /\ m_particle_weights = [i \in 1..m_num_particles |-> One \div m_num_particles]
    /\ a_sighting_queue = <<>>
    /\ pc = "idle"
    /\ iterOrder \in Orders(Keys)
    /\ pos = 0
    /\ idx = 0
    /\ aux_set = EmptyMap
    /\ calls = 0
    /\ preSet = EmptyMap
    /\ expected = [k \in Keys |-> One \div m_num_particles]

\* updateFilter is entered with the caller's queue
UpdateFilter ==
    /\ pc = "idle"
    /\ calls < MaxCalls
    /\ \E q \in SeqsUpTo(Obs, MaxQueue) :
          /\ a_sighting_queue' = q
          /\ pc' = IF q = <<>> THEN "resample" ELSE "update"
    /\ calls' = calls + 1
    /\ expected' = [k \in Keys |-> m_particle_weights[k + 1]]
    /\ preSet' = m_particle_set
    /\ pos' = 1
    /\ idx' = 0
    /\ UNCHANGED <<m_particle_set, m_particle_weights, iterOrder, aux_set>>
    /\ UNCHANGED <<cfgVars, partVars, drawVars>>

\* one pass of the inner for of updateFilter; after the last particle the
\* queue is popped and the while condition is evaluated
UpdateStep ==
    /\ pc = "update"
    /\ LET key == iterOrder[pos]
           P == m_particle_set[key]
           z == Head(a_sighting_queue)
       IN  \E cpd \in [1..Len(P.bank) -> W] :
             LET m == matchLandmark(P, z, cpd)
             IN  \E singular \in SingularFor(m), status \in StatusFor(m),
                    inRange \in IF LM_CLEANUP /\ m_robot
                                THEN [1..(Len(P.bank) + 1) -> BOOLEAN]
                                ELSE {NoInRange} :
                    LET r == updateParticle(P, z, cpd, singular, status, inRange)
                    IN  /\ m_particle_set' = [m_particle_set EXCEPT ![key] = r.p]
                        /\ m_particle_weights' =
                              [m_particle_weights EXCEPT ![idx + 1] = @ + r.ret]
                        /\ expected' = [expected EXCEPT ![key] = @ + r.ret]
                        /\ preSet' = [preSet EXCEPT ![key] = r.p]
    /\ IF pos < m_num_particles
       THEN /\ pos' = pos + 1
            /\ idx' = idx + 1
            /\ UNCHANGED <<a_sighting_queue, pc>>
       ELSE /\ a_sighting_queue' = Tail(a_sighting_queue)
            /\ pos' = 1
            /\ idx' = 0
            /\ pc' = IF Tail(a_sighting_queue) = <<>> THEN "resample" ELSE "update"
    /\ UNCHANGED <<iterOrder, aux_set, calls>>
    /\ UNCHANGED <<cfgVars, partVars, drawVars>>

\* one pass of the for of reSampleParticles; after the last slot aux_set is
\* moved into m_particle_set
ResampleStep ==
    /\ pc = "resample"
    /\ LET key == iterOrder[pos]
           cdf_table == genCDF(m_particle_weights)
           total_weight == cdf_table[Len(cdf_table)]
       IN  \E sampled_weight \in sampleUniform(total_weight), uninit \in UninitFor(cdf_table) :
             LET drew == drawWithReplacement(cdf_table, sampled_weight, uninit)
                 sampled_idx == IF drew >= 0 THEN drew ELSE key
             IN  IF sampled_idx \notin DOMAIN m_particle_set
                 THEN \* operator[] inserts an empty unique_ptr, which is then
                      \* dereferenced
                      /\ m_particle_set' = m_particle_set @@ (sampled_idx :> NULL)
                      /\ pc' = "crashed"
                      /\ UNCHANGED <<aux_set, pos, iterOrder>>
                 ELSE LET aux == aux_set @@ (key :> CopyParticle(m_particle_set[sampled_idx]))
                      IN  IF pos < m_num_particles
                          THEN /\ aux_set' = aux
                               /\ pos' = pos + 1
                               /\ UNCHANGED <<m_particle_set, pc, iterOrder>>
                          ELSE /\ m_particle_set' = aux
                               /\ aux_set' = EmptyMap
                               /\ pos' = 0
                               /\ pc' = "idle"
                               /\ iterOrder' \in Orders(Keys)
    /\ UNCHANGED <<m_particle_weights, a_sighting_queue, idx, calls, preSet, expected>>
    /\ UNCHANGED <<cfgVars, partVars, drawVars>>

Next ==
    \/ UpdateFilter
    \/ UpdateStep
    \/ ResampleStep

Spec == Init /\ [][Next]_vars


\* ------------------------------------------------------------------
\* Properties
\* ------------------------------------------------------------------

\* C1: after reSampleParticles every slot holds a particle whose EKF bank
\* equals the bank of some particle of the pre-resampling set (same pairs,
\* same order, equal counters, equal EKF state).
C1_ResampleCopiesBank ==
    (pc = "idle" /\ calls > 0) =>
        \A i \in Keys :
            \E j \in DOMAIN preSet : m_particle_set[i].bank = preSet[j].bank

\* the index j with cdf[j-1] <= u < cdf[j], taking cdf[-1] = 0 (0-based)
IntervalIndex(cdf, u) ==
    CHOOSE j \in 0..(Len(cdf) - 1) :
        /\ (IF j = 0 THEN 0 ELSE cdf[j]) <= u
        /\ u < cdf[j + 1]

\* C2: for a non-empty non-decreasing cdf and 0 <= u < cdf.back(),
\* drawWithReplacement returns the unique j with cdf[j-1] <= u < cdf[j];
\* for u < 0 or u > cdf.back() it returns -1.
C2_DrawFindsInterval ==
    called =>
        LET back == cdf_vec[Len(cdf_vec)]
        IN  /\ (sample < 0 \/ sample > back) => drawn = -1
            /\ (0 <= sample /\ sample < back) => drawn = IntervalIndex(cdf_vec, sample)

\* C3: in every reachable state the particle set has exactly the keys
\* 0..N-1, no entry is null, and the weights vector has length N; right
\* after construction every weight is 1/N and every bank is empty.
C3_SetShape ==
    /\ DOMAIN m_particle_set = Keys
    /\ \A k \in DOMAIN m_particle_set : m_particle_set[k] # NULL
    /\ Len(m_particle_weights) = m_num_particles
    /\ calls = 0 =>
          /\ \A i \in 1..m_num_particles : m_particle_weights[i] * m_num_particles = One
          /\ \A k \in Keys : m_particle_set[k].bank = <<>>

\* C4: after any updateFilter call every weight is either non-negative or
\* exactly the sentinel UPDATE_ERROR (so none is a previous weight plus the
\* sentinel, and none is negative for another reason).
C4_WeightNonNegativeOrSentinel ==
    (pc = "idle" /\ calls > 0) =>
        \A i \in 1..Len(m_particle_weights) :
            \/ m_particle_weights[i] >= 0
            \/ m_particle_weights[i] = Float(UPDATE_ERROR)

\* C5: when updateFilter returns, weights[i] is its value at entry plus the
\* sum of what updateParticle returned for the particle stored under key i,
\* and the queue is empty.
C5_IncrementGoesToOwnSlot ==
    (pc = "idle" /\ calls > 0) =>
        /\ a_sighting_queue = <<>>
        /\ \A k \in Keys : m_particle_weights[k + 1] = expected[k]

\* what the association is claimed to return for the densities cpd
MatchExpected(cpd, w_0) ==
    IF \E k \in 1..Len(cpd) : cpd[k] > w_0
    THEN (CHOOSE k \in 1..Len(cpd) :
             /\ \A j \in 1..Len(cpd) : cpd[j] <= cpd[k]
             /\ \A j \in 1..(k - 1) : cpd[j] < cpd[k]) - 1
    ELSE Len(cpd)

\* C6: matchLandmark returns the lowest index whose density is the maximum
\* over the bank when that maximum exceeds w0, and bank.size() otherwise;
\* data_label is that value, lies in [0, bank.size()], and the recorded
\* maximum correspondence is at least w0.
C6_MatchLowestMaximum ==
    op = "matchLandmark" =>
        /\ part.m_data_label = MatchExpected(cpdArg, m_importance_factor)
        /\ part.m_data_label \in 0..Len(part.bank)
        /\ part.m_curr_max_wn >= m_importance_factor

\* a tie between two densities above w0 was resolved
C6_Witness ==
    /\ op = "matchLandmark"
    /\ Len(cpdArg) >= 2
    /\ cpdArg[1] = cpdArg[2]
    /\ cpdArg[1] > m_importance_factor
    /\ part.m_data_label = 0

C8_Step ==
    LET before == Cnts(part.bank)
        after == Cnts(part'.bank)
        n == Len(part.bank)
        label == part'.m_data_label
        ran == op' = "updateLMBelief" \/ (op' = "updateParticle" /\ rc' # "NOT_CALLED")
    IN  /\ ran =>
              /\ rc' \in KF_RET
              /\ (label = n /\ m_robot) =>
                    /\ rc' = "SUCCESS"
                    /\ Len(after) = n + 1
                    /\ after[n + 1] = 1
                    /\ SubSeq(after, 1, n) = before
                    /\ op' = "updateLMBelief" => SubSeq(part'.bank, 1, n) = part.bank
              /\ (label < n /\ rc' = "SUCCESS") =>
                    after = [before EXCEPT ![label + 1] = @ + 1]
              /\ rc' # "SUCCESS" => after = before
        /\ Len(after) >= n
        /\ \A k \in 1..Len(after) : after[k] >= 1
        /\ SumSeq(after) = nSucc'

\* C8: without sighting cleanup an updateLMBelief call either appends one EKF
\* with counter 1 (new landmark, also with a singular Jacobian), or adds 1 to
\* the counter at data_label (successful update), or returns an error and
\* leaves size and counters alone; so the bank never shrinks, every counter
\* is >= 1 and the counters sum to the number of successful updates.
C8_BankUpdates == [][C8_Step]_vars

\* one landmark observed twice: bank size 1, counter 2
C8_Witness ==
    /\ ~LM_CLEANUP
    /\ op = "updateParticle"
    /\ Len(part.bank) = 1
    /\ part.bank[1].cnt = 2
    /\ nSucc = 2

C9_Step ==
    (op' = "cleanUpSightings" /\ part.m_data_label < Len(part.bank)) =>
        \A k \in 1..Len(part.bank) :
            part'.bank[k].cnt =
                IF k - 1 = part.m_data_label THEN part.bank[k].cnt
                ELSE IF inRangeArg'[k] THEN part.bank[k].cnt - 1
                ELSE part.bank[k].cnt

\* C9: cleanUpSightings leaves the counter of the EKF at data_label alone,
\* takes exactly 1 off the counter of every other EKF within the perceptual
\* range, and leaves the counters of the EKFs outside the range alone.
C9_CleanupSkipsUpdated == [][C9_Step]_vars

\* C10: with sighting cleanup, after any sequence of updateParticle calls
\* every counter in the bank is >= 1 (none negative, none left at zero).
C10_CountersStayPositive ==
    (LM_CLEANUP /\ onlyUP) =>
        \A k \in 1..Len(part.bank) : part.bank[k].cnt >= 1

====
